---- MODULE Spec2Model ----
(***************************************************************************)
(* The watch page of animehub (src/watch.html): the page-load handler      *)
(* loadAnimeDetails, the timeupdate listener it installs, and the pure     *)
(* functions they call, over the two localStorage documents animeData and  *)
(* watchHistory.                                                           *)
(*                                                                         *)
(* JavaScript values are tagged records: Num(n), Str(s), NaN, Null.        *)
(* Strings that the code parses (the ep URL parameter, episode fields) are *)
(* sequences of one-character strings, so that parseInt and the loose      *)
(* comparison == are computed and not assumed.  Strings that the code only *)
(* compares or copies (ids, URLs, markup) are TLA+ strings.                *)
(*                                                                         *)
(* The upload server of animehub (src/server.js): the route                *)
(* POST /api/upload/:type over multer's disk storage, in both variants of  *)
(* the server that the file holds.                                         *)
(***************************************************************************)
EXTENDS Integers, Sequences, FiniteSets

\* ------------------------------------------------------------------ bounds

\* The timestamps new Date() can return: 0..MaxClock.
MaxClock == 1

\* The page is loaded at most MaxSessions times.
MaxSessions == 2

\* A timeupdate event reports currentTime in 0..MaxCurrentTime.
MaxCurrentTime == 1

\* A title of the episode catalogs has at most MaxEpisodes episode records.
MaxEpisodes == 3

\* The server handles at most MaxUploads upload requests.
MaxUploads == 2

\* ------------------------------------------------------- program constants

\* slice(0, 20): the ledger keeps the first 20 entries.
HistoryLimit == 20

\* slice(0, 4): at most 4 related titles.
RelatedLimit == 4

\* The fixed base URL of a bigcommand embed.
BigCommandBase == "https://adilo.bigcommand.com/watch/"

\* ------------------------------------------------------ JavaScript values

Num(n) == [t |-> "num", n |-> n, s |-> <<>>]
Str(s) == [t |-> "str", n |-> 0, s |-> s]
NaN == [t |-> "nan", n |-> 0, s |-> <<>>]
Null == [t |-> "null", n |-> 0, s |-> <<>>]
Undef == [t |-> "undef", n |-> 0, s |-> <<>>]

IsNum(v) == v.t = "num"

Digits == <<"0", "1", "2", "3", "4", "5", "6", "7", "8", "9">>

IsDigit(c) == \E i \in 1..10 : Digits[i] = c

DigitVal(c) == (CHOOSE i \in 1..10 : Digits[i] = c) - 1

\* The value of the longest prefix of digits of s, read after acc; the
\* second component tells whether a digit was read.
RECURSIVE DigitPrefix(_, _, _)
DigitPrefix(s, acc, any) ==
    IF s # <<>> /\ IsDigit(Head(s))
    THEN DigitPrefix(Tail(s), acc * 10 + DigitVal(Head(s)), TRUE)
    ELSE <<acc, any>>

\* The decimal digits of a natural number: String(n).
RECURSIVE NumToString(_)
NumToString(n) ==
    IF n < 10 THEN <<Digits[n + 1]>>
    ELSE NumToString(n \div 10) \o <<Digits[(n % 10) + 1]>>

\* ToString of a value, as parseInt and template literals apply it.
JsToString(v) ==
    CASE v.t = "num" -> NumToString(v.n)
      [] v.t = "str" -> v.s
      [] v.t = "nan" -> <<"N", "a", "N">>
      [] v.t = "null" -> <<"n", "u", "l", "l">>
      [] OTHER -> <<"u", "n", "d", "e", "f", "i", "n", "e", "d">>

\* parseInt(v): the integer that the longest digit prefix of String(v)
\* denotes, NaN when there is none.
ParseInt(v) ==
    LET r == DigitPrefix(JsToString(v), 0, FALSE)
    IN  IF r[2] THEN Num(r[1]) ELSE NaN

\* Number(s) of a string: every character a digit, or the empty string (0).
ToNumber(s) ==
    LET r == DigitPrefix(s, 0, FALSE)
    IN  IF s = <<>> THEN Num(0)
        ELSE IF \A i \in 1..Len(s) : IsDigit(s[i]) THEN Num(r[1])
        ELSE NaN

\* a == b, the loose comparison.
LooseEq(a, b) ==
    CASE a.t = "num" /\ b.t = "num" -> a.n = b.n
      [] a.t = "str" /\ b.t = "str" -> a.s = b.s
      [] a.t = "num" /\ b.t = "str" -> ToNumber(b.s) = a
      [] a.t = "str" /\ b.t = "num" -> ToNumber(a.s) = b
      [] a.t \in {"null", "undef"} /\ b.t \in {"null", "undef"} -> TRUE
      [] OTHER -> FALSE

\* JSON.parse(JSON.stringify(v)): NaN has no JSON form and is written null.
JsonRoundTrip(v) == IF v.t = "nan" THEN Null ELSE v

\* A value in a condition: 0, NaN, "", null and undefined are falsy.
TruthyVal(v) ==
    CASE v.t = "num" -> v.n # 0
      [] v.t = "str" -> v.s # <<>>
      [] OTHER -> FALSE

\* slice(0, n)
Slice(s, n) == SubSeq(s, 1, IF Len(s) < n THEN Len(s) ELSE n)

\* ------------------------------------------------------------- VideoRef
\* A stored videoUrl is a text.  The code looks at a text in three ways:
\* JSON.parse(text), text.includes('<iframe') and text.includes('</iframe>');
\* a text is modelled by its identity and the answers to the three.

Undefined == "<undefined>"

NoFileInfo == [present |-> FALSE, name |-> Undefined, size |-> 0]

FileInfo(name, size) == [present |-> TRUE, name |-> name, size |-> size]

\* What JSON.parse gives: jt = "fail" (it throws), "null", "prim" (a number,
\* a string, a boolean: every property reads undefined) or "object".
Json(jt, type, provider, iframeSrc, embedCode, dataId, fileInfo) ==
    [jt |-> jt, type |-> type, provider |-> provider, iframeSrc |-> iframeSrc,
     embedCode |-> embedCode, dataId |-> dataId, fileInfo |-> fileInfo]

NotJson == Json("fail", Undefined, Undefined, Undefined, Undefined, Undefined, NoFileInfo)
JsonNull == Json("null", Undefined, Undefined, Undefined, Undefined, Undefined, NoFileInfo)
JsonPrim == Json("prim", Undefined, Undefined, Undefined, Undefined, Undefined, NoFileInfo)

JsonObject(type, provider, iframeSrc, embedCode, dataId, fileInfo) ==
    Json("object", type, provider, iframeSrc, embedCode, dataId, fileInfo)

Ref(text, parse, open, close) ==
    [text |-> text, parse |-> parse, open |-> open, close |-> close]

\* No videoUrl property, and the empty string.
RefAbsent == Ref(Undefined, NotJson, FALSE, FALSE)
RefEmpty == Ref("", NotJson, FALSE, FALSE)

RefUrl == Ref("https://cdn.example/ep1.mp4", NotJson, FALSE, FALSE)
RefUrl2 == Ref("https://cdn.example/ep2.mp4", NotJson, FALSE, FALSE)
RefIframeTag == Ref("<iframe src=a></iframe>", NotJson, TRUE, TRUE)
RefOpenTagOnly == Ref("<iframe src=a>", NotJson, TRUE, FALSE)
RefCloseTagOnly == Ref("a</iframe>", NotJson, FALSE, TRUE)

RefEmbedIframe ==
    Ref("{type:embed,provider:iframe,iframeSrc:https://p.example/1,embedCode:<iframe src=p></iframe>}",
        JsonObject("embed", "iframe", "https://p.example/1", "<iframe src=p></iframe>",
                   Undefined, NoFileInfo), TRUE, TRUE)
RefEmbedIframeNoSrc ==
    Ref("{type:embed,provider:iframe,embedCode:<iframe src=q></iframe>}",
        JsonObject("embed", "iframe", Undefined, "<iframe src=q></iframe>",
                   Undefined, NoFileInfo), TRUE, TRUE)
RefEmbedIframeEmptySrc ==
    Ref("{type:embed,provider:iframe,iframeSrc:,embedCode:<iframe src=r></iframe>}",
        JsonObject("embed", "iframe", "", "<iframe src=r></iframe>",
                   Undefined, NoFileInfo), TRUE, TRUE)
RefBigCommand ==
    Ref("{type:embed,provider:bigcommand,dataId:xyz123}",
        JsonObject("embed", "bigcommand", Undefined, Undefined, "xyz123", NoFileInfo),
        FALSE, FALSE)
RefBigCommandNoId ==
    Ref("{type:embed,provider:bigcommand}",
        JsonObject("embed", "bigcommand", Undefined, Undefined, Undefined, NoFileInfo),
        FALSE, FALSE)
RefEmbedOther ==
    Ref("{type:embed,provider:youtube,embedCode:<iframe src=y></iframe>}",
        JsonObject("embed", "youtube", Undefined, "<iframe src=y></iframe>",
                   Undefined, NoFileInfo), TRUE, TRUE)
RefEmbedNoProvider ==
    Ref("{type:embed,embedCode:<div>player</div>}",
        JsonObject("embed", Undefined, Undefined, "<div>player</div>",
                   Undefined, NoFileInfo), FALSE, FALSE)
RefFile ==
    Ref("{type:file,fileInfo:{name:big.mp4,size:3145728}}",
        JsonObject("file", Undefined, Undefined, Undefined, Undefined,
                   FileInfo("big.mp4", 3145728)), FALSE, FALSE)
RefFileNoInfo ==
    Ref("{type:file}",
        JsonObject("file", Undefined, Undefined, Undefined, Undefined, NoFileInfo),
        FALSE, FALSE)
RefFileNoInfoTagged ==
    Ref("{type:file,embedCode:<iframe src=f></iframe>}",
        JsonObject("file", Undefined, Undefined, "<iframe src=f></iframe>",
                   Undefined, NoFileInfo), TRUE, TRUE)
RefOtherType ==
    Ref("{type:link,url:https://cdn.example/ep1.mp4}",
        JsonObject("link", Undefined, Undefined, Undefined, Undefined, NoFileInfo),
        FALSE, FALSE)
RefNoType ==
    Ref("{url:https://cdn.example/ep1.mp4}",
        JsonObject(Undefined, Undefined, Undefined, Undefined, Undefined, NoFileInfo),
        FALSE, FALSE)
RefJsonNull == Ref("null", JsonNull, FALSE, FALSE)
RefJsonNumber == Ref("123", JsonPrim, FALSE, FALSE)

\* The texts a title's videoUrl is drawn from.
VideoRefs ==
    {RefAbsent, RefEmpty, RefUrl, RefIframeTag, RefOpenTagOnly, RefCloseTagOnly,
     RefEmbedIframe, RefEmbedIframeNoSrc, RefEmbedIframeEmptySrc, RefBigCommand,
     RefBigCommandNoId, RefEmbedOther, RefEmbedNoProvider, RefFile, RefFileNoInfo,
     RefFileNoInfoTagged, RefOtherType, RefNoType, RefJsonNull, RefJsonNumber}

\* The texts an episode's videoUrl is drawn from.
EpisodeVideoRefs == {RefAbsent, RefEmpty, RefUrl2}

\* A text in a condition: undefined and "" are falsy.
Truthy(text) == text \notin {Undefined, ""}

\* ------------------------------------------------------------ the player
\* What videoPlayer.innerHTML holds.  src is the iframe's or the source's
\* src attribute, as the parts the template concatenates; tracking tells
\* whether a timeupdate listener is attached to the video element.

Player(kind, src, markup, name, size, tracking) ==
    [kind |-> kind, src |-> src, markup |-> markup, name |-> name,
     size |-> size, tracking |-> tracking]

\* The markup of the page as served: a spinner.
Spinner == Player("Spinner", <<>>, Undefined, Undefined, 0, FALSE)

NoVideo == Player("NoVideo", <<>>, Undefined, Undefined, 0, FALSE)

IframeEmbed(src) == Player("IframeEmbed", <<src>>, Undefined, Undefined, 0, FALSE)

ProviderEmbed(dataId) ==
    Player("ProviderEmbed", <<BigCommandBase, dataId>>, Undefined, Undefined, 0, FALSE)

RawEmbedMarkup(markup) == Player("RawEmbedMarkup", <<>>, markup, Undefined, 0, FALSE)

DirectVideo(url) == Player("DirectVideo", <<url>>, Undefined, Undefined, 0, TRUE)

\* (size / (1024 * 1024)).toFixed(2), in hundredths of a mebibyte.
SizeMB(size) == (size * 200 + 1048576) \div 2097152

LargeFilePlaceholder(fileInfo) ==
    Player("LargeFilePlaceholder", <<>>, Undefined, fileInfo.name, SizeMB(fileInfo.size), FALSE)

\* A faulty variant: one iframe tag is enough (|| for &&).
RenderRawEitherTag(videoUrl) ==
    IF videoUrl.open \/ videoUrl.close
    THEN RawEmbedMarkup(videoUrl.text)
    ELSE DirectVideo(videoUrl.text)

\* The catch block: markup with both iframe tags is used verbatim, any
\* other text is the source of a video element with progress tracking.
RenderRaw(videoUrl) ==
    IF videoUrl.open /\ videoUrl.close
    THEN RawEmbedMarkup(videoUrl.text)
    ELSE DirectVideo(videoUrl.text)

\* A faulty variant: an iframe descriptor is always rendered from its embed code.
RenderEmbedIgnoreSrc(videoData) ==
    IF videoData.provider = "bigcommand"
    THEN ProviderEmbed(videoData.dataId)
    ELSE RawEmbedMarkup(videoData.embedCode)

\* A faulty variant: the bigcommand branch is missing.
RenderEmbedNoProvider(videoData) ==
    IF videoData.provider = "iframe" /\ Truthy(videoData.iframeSrc)
    THEN IframeEmbed(videoData.iframeSrc)
    ELSE RawEmbedMarkup(videoData.embedCode)

\* videoData.type === 'embed'
RenderEmbed(videoData) ==
    IF videoData.provider = "iframe"
    THEN IF Truthy(videoData.iframeSrc)
         THEN IframeEmbed(videoData.iframeSrc)
         ELSE RawEmbedMarkup(videoData.embedCode)
    ELSE IF videoData.provider = "bigcommand"
         THEN ProviderEmbed(videoData.dataId)
         ELSE RawEmbedMarkup(videoData.embedCode)

\* videoData.type === 'file': reading fileInfo.size of a missing fileInfo
\* throws inside the try block, and the catch block renders the text.
RenderFile(videoData, videoUrl) ==
    IF videoData.fileInfo.present
    THEN LargeFilePlaceholder(videoData.fileInfo)
    ELSE RenderRaw(videoUrl)

\* if (videoUrl) { try { ... } catch { ... } } else { ... }: the player
\* after the resolution step, from the player as served.  A parsed value
\* of another type, or of none, leaves the player as it was; reading
\* .type of null throws.
RenderVideo(videoUrl) ==
    IF ~Truthy(videoUrl.text) THEN NoVideo
    ELSE IF videoUrl.parse.jt = "fail" THEN RenderRaw(videoUrl)
    ELSE IF videoUrl.parse.jt = "null" THEN RenderRaw(videoUrl)
    ELSE IF videoUrl.parse.type = "embed" THEN RenderEmbed(videoUrl.parse)
    ELSE IF videoUrl.parse.type = "file" THEN RenderFile(videoUrl.parse, videoUrl)
    ELSE Spinner

\* ------------------------------------------------------------ the catalog
\* A title of animeData: id, views, genre, totalEpisodes (a value),
\* videoUrl (a text) and episodes, a sequence of [episode, videoUrl]; a
\* title without an episodes property has episodes = <<>>.

Episode(episode, videoUrl) == [episode |-> episode, videoUrl |-> videoUrl]

Title(id, views, genre, totalEpisodes, videoUrl, episodes) ==
    [id |-> id, views |-> views, genre |-> genre, totalEpisodes |-> totalEpisodes,
     videoUrl |-> videoUrl, episodes |-> episodes]

\* getEpisodeNumber(): the ep parameter, '1' when it is absent or empty.
GetEpisodeNumber(ep) == IF ep = <<>> THEN <<"1">> ELSE ep

\* anime.episodes.find(ep => ep.episode == episodeNum): the index of the
\* first episode that loosely equals the parameter, 0 when there is none.
FindEpisode(episodes, episodeNum) ==
    IF \E i \in 1..Len(episodes) : LooseEq(episodes[i].episode, Str(episodeNum))
    THEN CHOOSE i \in 1..Len(episodes) :
            /\ LooseEq(episodes[i].episode, Str(episodeNum))
            /\ \A j \in 1..(i - 1) : ~LooseEq(episodes[j].episode, Str(episodeNum))
    ELSE 0

\* The videoUrl handed to the resolution step: the found episode's when it
\* is truthy, else the title's when that is truthy, else none.
SelectVideoUrl(anime, episodeNum) ==
    LET i == FindEpisode(anime.episodes, episodeNum)
    IN  IF i # 0 /\ Truthy(anime.episodes[i].videoUrl.text)
        THEN anime.episodes[i].videoUrl
        ELSE IF Truthy(anime.videoUrl.text) THEN anime.videoUrl
        ELSE RefAbsent

\* --------------------------------------------------------- episodes list

\* nums, ascending, with x put after every element that is not larger.
RECURSIVE InsertEpisodeNumber(_, _)
InsertEpisodeNumber(nums, x) ==
    IF nums # <<>> /\ nums[Len(nums)].n > x.n
    THEN Append(InsertEpisodeNumber(SubSeq(nums, 1, Len(nums) - 1), x), nums[Len(nums)])
    ELSE Append(nums, x)

\* A faulty variant: episodeNumbers.sort() without a comparator orders the numbers
\* as texts, 10 before 2.
RECURSIVE TextBefore(_, _)
TextBefore(a, b) ==
    IF a = <<>> THEN b # <<>>
    ELSE IF b = <<>> THEN FALSE
    ELSE IF Head(a) = Head(b) THEN TextBefore(Tail(a), Tail(b))
    ELSE DigitVal(Head(a)) < DigitVal(Head(b))

RECURSIVE InsertEpisodeNumberAsText(_, _)
InsertEpisodeNumberAsText(nums, x) ==
    IF nums # <<>> /\ TextBefore(NumToString(x.n), NumToString(nums[Len(nums)].n))
    THEN Append(InsertEpisodeNumberAsText(SubSeq(nums, 1, Len(nums) - 1), x),
                nums[Len(nums)])
    ELSE Append(nums, x)

RECURSIVE SortEpisodeNumbersAsText(_)
SortEpisodeNumbersAsText(nums) ==
    IF nums = <<>> THEN <<>>
    ELSE InsertEpisodeNumberAsText(
             SortEpisodeNumbersAsText(SubSeq(nums, 1, Len(nums) - 1)), nums[Len(nums)])

\* episodeNumbers.sort((a, b) => a - b) of numbers: ascending by value,
\* equal values in their given order (the sort is stable).
RECURSIVE SortEpisodeNumbers(_)
SortEpisodeNumbers(nums) ==
    IF nums = <<>> THEN <<>>
    ELSE InsertEpisodeNumber(SortEpisodeNumbers(SubSeq(nums, 1, Len(nums) - 1)),
                             nums[Len(nums)])

\* epNum == currentEpisode, of two numbers (NaN equals nothing).
IsCurrentEp(epNum, currentEpisode) == IsNum(epNum) /\ epNum = currentEpisode

EpisodeButton(epNum, current) == [epNum |-> epNum, current |-> current]

\* populateEpisodesList(anime): the buttons appended to episodesList.
PopulateEpisodesList(anime, ep) ==
    LET currentEpisode == ParseInt(Str(GetEpisodeNumber(ep)))
    IN  IF Len(anime.episodes) > 0
        THEN LET episodeNumbers ==
                    SortEpisodeNumbers([i \in 1..Len(anime.episodes) |->
                                            ParseInt(anime.episodes[i].episode)])
             IN  [i \in 1..Len(episodeNumbers) |->
                    EpisodeButton(episodeNumbers[i],
                                  IsCurrentEp(episodeNumbers[i], currentEpisode))]
        ELSE LET totalEpisodes ==
                    ParseInt(IF TruthyVal(anime.totalEpisodes)
                             THEN anime.totalEpisodes ELSE Num(1))
             IN  IF IsNum(totalEpisodes)
                 THEN [i \in 1..totalEpisodes.n |->
                         EpisodeButton(Num(i), IsCurrentEp(Num(i), currentEpisode))]
                 ELSE <<>>

\* --------------------------------------------------------- related titles

\* A faulty variant: the opened title is not taken out.
ExcludeNothing(data, animeId) == data

\* animeData.filter(a => a.id !== animeId)
ExcludeTitle(data, animeId) ==
    LET keep(a) == a.id # animeId
    IN  SelectSeq(data, keep)

\* A faulty variant: every title passes the genre filter.
GenreFilteredAll(data, genre) == data

\* relatedAnime.filter(a => a.genre === genre)
GenreFiltered(data, genre) ==
    LET same(a) == a.genre = genre
    IN  SelectSeq(data, same)

\* loadRelatedAnime(genre): the ids of the cards, in order.
LoadRelatedAnime(data, animeId, genre) ==
    LET others == ExcludeTitle(data, animeId)
        matching == GenreFiltered(others, genre)
        chosen == Slice(IF Len(matching) > 0 THEN matching ELSE others, RelatedLimit)
    IN  [i \in 1..Len(chosen) |-> chosen[i].id]

\* ---------------------------------------------------------- watch history

Entry(animeId, episode, progress, lastWatched) ==
    [animeId |-> animeId, episode |-> episode, progress |-> progress,
     lastWatched |-> lastWatched]

\* watchHistory.findIndex(item => item.animeId === animeId), 0 for -1.
ExistingIndex(history, animeId) ==
    IF \E i \in 1..Len(history) : history[i].animeId = animeId
    THEN CHOOSE i \in 1..Len(history) :
            /\ history[i].animeId = animeId
            /\ \A j \in 1..(i - 1) : history[j].animeId # animeId
    ELSE 0

\* A faulty variant: the entry is pushed without looking for an existing one.
PutEntryAlwaysPush(history, entry) == Append(history, entry)

\* A faulty variant: an existing entry keeps its episode and takes only the new
\* progress and time.
PutEntryMerge(history, entry) ==
    LET existingIndex == ExistingIndex(history, entry.animeId)
    IN  IF existingIndex # 0
        THEN [history EXCEPT ![existingIndex] =
                 [entry EXCEPT !.episode = history[existingIndex].episode]]
        ELSE Append(history, entry)

\* The existing entry replaced in place, or the new entry pushed.
PutEntry(history, entry) ==
    LET existingIndex == ExistingIndex(history, entry.animeId)
    IN  IF existingIndex # 0
        THEN [history EXCEPT ![existingIndex] = entry]
        ELSE Append(history, entry)

\* history, latest first, with entry put after every entry that is not
\* older.
RECURSIVE InsertByLastWatched(_, _)
InsertByLastWatched(history, entry) ==
    IF history # <<>> /\ history[Len(history)].lastWatched < entry.lastWatched
    THEN Append(InsertByLastWatched(SubSeq(history, 1, Len(history) - 1), entry),
                history[Len(history)])
    ELSE Append(history, entry)

\* watchHistory.sort((a, b) => new Date(b.lastWatched) - new Date(a.lastWatched)):
\* descending by lastWatched, equal times in their given order (the sort
\* is stable).
RECURSIVE SortByLastWatched(_)
SortByLastWatched(history) ==
    IF history = <<>> THEN <<>>
    ELSE InsertByLastWatched(SortByLastWatched(SubSeq(history, 1, Len(history) - 1)),
                             history[Len(history)])

\* A faulty variant: the last 20 entries are kept, slice(-20).
LimitHistoryKeepLast(history) ==
    SubSeq(history, IF Len(history) > HistoryLimit THEN Len(history) - HistoryLimit + 1 ELSE 1,
           Len(history))

\* .slice(0, 20)
LimitHistory(history) == Slice(history, HistoryLimit)

\* JSON.stringify(limitedHistory), as JSON.parse reads it back.
StoreHistory(history) ==
    [i \in 1..Len(history) |->
        [history[i] EXCEPT !.episode = JsonRoundTrip(history[i].episode)]]

\* addToWatchHistory(animeId, episode, progress) at time now: the stored
\* ledger afterwards.
AddToWatchHistory(history, animeId, episode, progress, now) ==
    StoreHistory(LimitHistory(SortByLastWatched(
        PutEntry(history, Entry(animeId, episode, progress, now)))))

\* ----------------------------------------------------- the upload server
\* src/server.js holds two variants of the server, one after the other;
\* they differ in where files are stored and under which URL prefix they
\* are served.  Names, mimetypes and the route's type parameter are
\* sequences of one-character strings, so that startsWith, the filename
\* pattern and the template literal of fileUrl are computed.

\* limits.fileSize
FileSizeLimit == 500 * 1024 * 1024

LowerCase == {"a", "b", "c", "d", "e", "f", "g", "h", "i", "j", "k", "l", "m",
              "n", "o", "p", "q", "r", "s", "t", "u", "v", "w", "x", "y", "z"}
UpperCase == {"A", "B", "C", "D", "E", "F", "G", "H", "I", "J", "K", "L", "M",
              "N", "O", "P", "Q", "R", "S", "T", "U", "V", "W", "X", "Y", "Z"}

\* The characters [a-zA-Z0-9.-] that the filename keeps.
SafeChars == LowerCase \cup UpperCase \cup {Digits[i] : i \in 1..10} \cup {".", "-"}

\* \s among the characters of the names tried.
SpaceChars == {" "}

\* s.startsWith(prefix)
StartsWith(s, prefix) ==
    Len(s) >= Len(prefix) /\ SubSeq(s, 1, Len(prefix)) = prefix

ImageSlash == <<"i", "m", "a", "g", "e", "/">>
VideoSlash == <<"v", "i", "d", "e", "o", "/">>
VideoMp4 == <<"v", "i", "d", "e", "o", "/", "m", "p", "4">>

\* fileFilter: images and videos are accepted.
FileFilter(mimetype) ==
    \/ StartsWith(mimetype, ImageSlash)
    \/ StartsWith(mimetype, VideoSlash)
    \/ mimetype = VideoMp4

\* The subdirectory storage.destination chooses, by mimetype.
Destination(mimetype) ==
    IF StartsWith(mimetype, ImageSlash)
    THEN <<"i", "m", "a", "g", "e", "s">>
    ELSE IF StartsWith(mimetype, VideoSlash) \/ mimetype = VideoMp4
    THEN <<"v", "i", "d", "e", "o", "s">>
    ELSE <<"o", "t", "h", "e", "r", "s">>

\* originalname.replace(/[^a-zA-Z0-9.-]/g, '_')
Sanitize(name) ==
    [i \in 1..Len(name) |-> IF name[i] \in SafeChars THEN name[i] ELSE "_"]

\* The index of the last '.' of a name, 0 when it has none.
LastDot(name) ==
    IF \E i \in 1..Len(name) : name[i] = "."
    THEN CHOOSE i \in 1..Len(name) :
            name[i] = "." /\ \A j \in (i + 1)..Len(name) : name[j] # "."
    ELSE 0

\* path.extname(name): from the last '.', unless it starts the name.
ExtName(name) ==
    IF LastDot(name) > 1 THEN SubSeq(name, LastDot(name), Len(name)) ELSE <<>>

\* path.basename(name, ext) of a name without directories.
BaseName(name, ext) ==
    IF ext # <<>> /\ Len(name) > Len(ext)
          /\ SubSeq(name, Len(name) - Len(ext) + 1, Len(name)) = ext
    THEN SubSeq(name, 1, Len(name) - Len(ext))
    ELSE name

\* Date.now() + '-' + Math.round(Math.random() * 1E9)
UniqueSuffix(time, random) == NumToString(time) \o <<"-">> \o NumToString(random)

\* storage.filename: the sanitized name with the suffix before its extension.
FileName(originalname, time, random) ==
    LET safe == Sanitize(originalname)
        ext == ExtName(safe)
    IN  BaseName(safe, ext) \o <<"-">> \o UniqueSuffix(time, random) \o ext

\* The first index from i on whose character is not in the set.
RECURSIVE RunEnd(_, _, _)
RunEnd(s, i, chars) ==
    IF i <= Len(s) /\ s[i] \in chars THEN RunEnd(s, i + 1, chars) ELSE i

\* \s*(\d+) at index i: the digits captured, <<>> when there is no digit.
SpacesDigits(s, i) ==
    LET d == RunEnd(s, i, SpaceChars)
        e == RunEnd(s, d, {Digits[k] : k \in 1..10})
    IN  SubSeq(s, d, e - 1)

\* (\d+) at index i: the digits captured, <<>> when there is no digit.
DigitsAt(s, i) ==
    SubSeq(s, i, RunEnd(s, i, {Digits[k] : k \in 1..10}) - 1)

\* The literal occurs in s at index i.
LiteralAt(s, i, literal) ==
    i + Len(literal) - 1 <= Len(s) /\ SubSeq(s, i, i + Len(literal) - 1) = literal

\* /[Ee]pisode\s*(\d+)|[Ee]p\s*(\d+)|[Ee]\s*(\d+)|S\d+E(\d+)/ tried at
\* index i, the alternatives in order: the capture, <<>> for no match.
EpisodeMatchAt(s, i) ==
    LET seasonEnd == RunEnd(s, i + 1, {Digits[k] : k \in 1..10})
    IN  IF s[i] \in {"E", "e"}
              /\ LiteralAt(s, i + 1, <<"p", "i", "s", "o", "d", "e">>)
              /\ SpacesDigits(s, i + 7) # <<>>
        THEN SpacesDigits(s, i + 7)
        ELSE IF s[i] \in {"E", "e"} /\ LiteralAt(s, i + 1, <<"p">>)
              /\ SpacesDigits(s, i + 2) # <<>>
        THEN SpacesDigits(s, i + 2)
        ELSE IF s[i] \in {"E", "e"} /\ SpacesDigits(s, i + 1) # <<>>
        THEN SpacesDigits(s, i + 1)
        ELSE IF s[i] = "S" /\ seasonEnd > i + 1 /\ LiteralAt(s, seasonEnd, <<"E">>)
        THEN DigitsAt(s, seasonEnd + 1)
        ELSE <<>>

\* The episode number the upload route extracts from a video's name: the
\* capture of the leftmost match, as a string; null when nothing matches.
EpisodeNumber(fileName) ==
    IF \E i \in 1..Len(fileName) : EpisodeMatchAt(fileName, i) # <<>>
    THEN Str(EpisodeMatchAt(fileName,
                 CHOOSE i \in 1..Len(fileName) :
                    /\ EpisodeMatchAt(fileName, i) # <<>>
                    /\ \A j \in 1..(i - 1) : EpisodeMatchAt(fileName, j) = <<>>))
    ELSE Null

\* `${prefix}/${fileType}s/${req.file.filename}`
FileUrl(prefix, fileType, filename) ==
    [prefix |-> prefix, dir |-> fileType \o <<"s">>, filename |-> filename]

\* ------------------------------------------------------------------ state

VARIABLES
    animeData,      \* localStorage animeData, parsed: a sequence of titles
    watchHistory,   \* localStorage watchHistory, parsed, when it is an array
    historyForm,    \* "array", or how the stored text fails to be one
    now,            \* the time new Date() returns
    sessions,       \* how many times the page has been loaded
    status,         \* "idle", "watching", "redirected" or "failed"
    href,           \* the id and ep parameters of the page's URL
    videoUrl,       \* the videoUrl loadAnimeDetails chose (RefAbsent for null)
    videoPlayer,    \* the content of #videoPlayer
    episodesList,   \* the buttons of #episodesList
    relatedAnime,   \* the ids of the cards of #relatedAnime
    lastCall,       \* the addToWatchHistory call of the last step, if any
    server,         \* which variant of server.js runs: its root and URL prefix
    disk,           \* the files under the upload root: root, directory, name
    reqFile,        \* req.file of the last upload request
    response,       \* the response to the last upload request
    uploads         \* how many upload requests have been handled

\* The variables of the upload server.
serverVars == <<server, disk, reqFile, response, uploads>>

vars == <<animeData, watchHistory, historyForm, now, sessions, status, href,
          videoUrl, videoPlayer, episodesList, relatedAnime, lastCall,
          server, disk, reqFile, response, uploads>>

\* The two variants of server.js: where uploads are stored, and the URL
\* prefix under which express.static serves that directory.
ServerVariant(root, prefix) == [root |-> root, prefix |-> prefix]
TempServer == ServerVariant("tmpdir/senpai-anime-uploads", "/temp-uploads")
LocalServer == ServerVariant("__dirname/uploads", "/uploads")
ServerVariants == {TempServer, LocalServer}

\* req.file: undefined, or what multer's disk storage stored.
NoFile ==
    [present |-> FALSE, destination |-> <<>>, filename |-> <<>>,
     originalname |-> <<>>, size |-> 0]

StoredFile(destination, filename, originalname, size) ==
    [present |-> TRUE, destination |-> destination, filename |-> filename,
     originalname |-> originalname, size |-> size]

\* res.status(..).json(..): the status and the fields of the body other
\* than the message.
Response(statusCode, success, fileUrl, fileName, fileSize, episodeNumber) ==
    [status |-> statusCode, success |-> success, fileUrl |-> fileUrl,
     fileName |-> fileName, fileSize |-> fileSize, episodeNumber |-> episodeNumber]

\* A body without a fileUrl.
NoFileUrl == [prefix |-> "", dir |-> <<>>, filename |-> <<>>]

NoResponse == Response(0, FALSE, NoFileUrl, <<>>, 0, Null)

\* An error response: success false and a message only.
Failure(statusCode) == Response(statusCode, FALSE, NoFileUrl, <<>>, 0, Null)

\* The server has handled no request: the upload directories are empty.
ServerIdle ==
    /\ disk = {}
    /\ reqFile = NoFile
    /\ response = NoResponse
    /\ uploads = 0

NoCall == [called |-> FALSE, animeId |-> 0, episode |-> Undef, progress |-> 0]

Call(animeId, episode, progress) ==
    [called |-> TRUE, animeId |-> animeId, episode |-> episode, progress |-> progress]

\* The URL parameters: an id is a positive number, 0 stands for an absent
\* or empty id; an ep is a string, <<>> for an absent or empty one.
Href(id, ep) == [id |-> id, ep |-> ep]

NoHref == Href(0, <<>>)

\* ----------------------------------------------------------------- inputs

\* The largest id a catalog uses; UnknownId is in no catalog.
NumTitles == HistoryLimit + 2
UnknownId == NumTitles + 1

\* The id parameters tried.
IdParams == {0, 1, 2, 3, UnknownId}

\* The ep parameters tried: absent, '2', '2a' and 'x'.
EpParams == {<<>>, <<"2">>, <<"2", "a">>, <<"x">>}

\* The duration a video element reports: NaN before the metadata is read,
\* a finite length of 4 seconds, Infinity for a stream.
Duration(k, v) == [k |-> k, v |-> v]
Durations == {Duration("nan", 0), Duration("fin", 4), Duration("inf", 0)}

\* A faulty variant: a tick at the very start is reported too.
ReportsAnyProgress(currentTime, duration) ==
    duration.k = "fin" /\ duration.v > 0

\* (currentTime / duration) * 100 > 0 && duration > 0
ReportsProgress(currentTime, duration) ==
    duration.k = "fin" /\ duration.v > 0 /\ currentTime > 0

\* (currentTime / duration) * 100, where it is reported.
Progress(currentTime, duration) == (currentTime * 100) \div duration.v

\* The times a handler that starts at time now may read.
Clock == {t \in {now, now + 1} : t <= MaxClock}

\* ---------------------------------------------------------------- actions

\* animeData.find(a => a.id === animeId): the index, 0 when none.
FindAnime(data, animeId) ==
    IF \E i \in 1..Len(data) : data[i].id = animeId
    THEN CHOOSE i \in 1..Len(data) :
            data[i].id = animeId /\ \A j \in 1..(i - 1) : data[j].id # animeId
    ELSE 0

\* A faulty variant: the first title's view is counted before the page
\* is left.
RedirectAfterCount ==
    /\ status' = "redirected"
    /\ href' = NoHref
    /\ videoUrl' = RefAbsent
    /\ videoPlayer' = Spinner
    /\ episodesList' = <<>>
    /\ relatedAnime' = <<>>
    /\ lastCall' = NoCall
    /\ animeData' = [animeData EXCEPT ![1].views = @ + 1]
    /\ UNCHANGED <<watchHistory, historyForm>>

\* window.location.href = 'index.html'; return: the watch page is left
\* with nothing written.
Redirect ==
    /\ status' = "redirected"
    /\ href' = NoHref
    /\ videoUrl' = RefAbsent
    /\ videoPlayer' = Spinner
    /\ episodesList' = <<>>
    /\ relatedAnime' = <<>>
    /\ lastCall' = NoCall
    /\ UNCHANGED <<animeData, watchHistory, historyForm>>

\* A faulty variant: a view is counted twice.
CountViewTwice(anime) == [anime EXCEPT !.views = @ + 2]

\* anime.views = (anime.views || 0) + 1
CountView(anime) == [anime EXCEPT !.views = @ + 1]

\* DOMContentLoaded on watch.html?id=..&ep=..: loadAnimeDetails().
LoadAnimeDetails(id, ep, t) ==
    /\ sessions < MaxSessions
    /\ sessions' = sessions + 1
    /\ t \in Clock
    /\ now' = t
    /\ UNCHANGED serverVars
    /\ LET episodeNum == GetEpisodeNumber(ep)
           i == FindAnime(animeData, id)
       IN  IF id = 0 \/ i = 0
           THEN Redirect
           ELSE LET anime == CountView(animeData[i])
                    saved == [animeData EXCEPT ![i] = anime]
                IN  /\ animeData' = saved
                    /\ href' = Href(id, ep)
                    /\ lastCall' = Call(anime.id, ParseInt(Str(episodeNum)), 0)
                    /\ IF historyForm = "array"
                       THEN /\ watchHistory' =
                                  AddToWatchHistory(watchHistory, anime.id,
                                                    ParseInt(Str(episodeNum)), 0, t)
                            /\ status' = "watching"
                            /\ videoUrl' = SelectVideoUrl(anime, episodeNum)
                            /\ videoPlayer' = RenderVideo(SelectVideoUrl(anime, episodeNum))
                            /\ episodesList' = PopulateEpisodesList(anime, ep)
                            /\ relatedAnime' = LoadRelatedAnime(saved, id, anime.genre)
                            /\ UNCHANGED historyForm
                       ELSE \* JSON.parse or findIndex throws: the handler ends here
                            /\ status' = "failed"
                            /\ videoUrl' = RefAbsent
                            /\ videoPlayer' = Spinner
                            /\ episodesList' = <<>>
                            /\ relatedAnime' = <<>>
                            /\ UNCHANGED <<watchHistory, historyForm>>

\* A timeupdate event on the video element of a DirectVideo player.
TimeUpdate(currentTime, duration, t) ==
    /\ status = "watching"
    /\ videoPlayer.tracking
    /\ t \in Clock
    /\ now' = t
    /\ UNCHANGED serverVars
    /\ IF ReportsProgress(currentTime, duration)
       THEN /\ lastCall' = Call(href.id, Str(GetEpisodeNumber(href.ep)),
                                Progress(currentTime, duration))
            /\ IF historyForm = "array"
               THEN watchHistory' =
                        AddToWatchHistory(watchHistory, href.id,
                                          Str(GetEpisodeNumber(href.ep)),
                                          Progress(currentTime, duration), t)
               ELSE UNCHANGED watchHistory
       ELSE /\ lastCall' = NoCall
            /\ UNCHANGED watchHistory
    /\ UNCHANGED <<animeData, historyForm, sessions, status, href, videoUrl,
                   videoPlayer, episodesList, relatedAnime>>

Next ==
    \/ \E id \in IdParams, ep \in EpParams, t \in {now, now + 1} :
          LoadAnimeDetails(id, ep, t)
    \/ \E currentTime \in 0..MaxCurrentTime, duration \in Durations, t \in {now, now + 1} :
          TimeUpdate(currentTime, duration, t)

\* ----------------------------------------------------- initial states

\* The page before its first load: nothing rendered.
PageIdle ==
    /\ sessions = 0
    /\ status = "idle"
    /\ href = NoHref
    /\ videoUrl = RefAbsent
    /\ videoPlayer = Spinner
    /\ episodesList = <<>>
    /\ relatedAnime = <<>>
    /\ lastCall = NoCall

\* Before the first load, the server (its first variant) not yet used.
InitPage ==
    /\ PageIdle
    /\ server = TempServer
    /\ ServerIdle

\* The episode lists of the player's catalogs: up to two records, numbered
\* 1 or 2 (twice the same number too), with or without a videoUrl.
PlayerEpisodes == {Episode(Num(n), v) : n \in {1, 2}, v \in EpisodeVideoRefs}
PlayerEpisodeLists ==
    {<<>>} \cup {<<a>> : a \in PlayerEpisodes}
           \cup {<<a, b>> : a \in PlayerEpisodes, b \in PlayerEpisodes}

\* One title: every text as its videoUrl with no episodes, and every
\* episode list over a title with and without a videoUrl of its own.
InitPlayer ==
    /\ InitPage
    /\ \E v \in VideoRefs, eps \in PlayerEpisodeLists :
          /\ eps = <<>> \/ v \in {RefAbsent, RefUrl}
          /\ animeData = <<Title(1, 0, "Action", Undef, v, eps)>>
    /\ watchHistory = <<>>
    /\ historyForm = "array"
    /\ now = 0

SpecPlayer == InitPlayer /\ [][Next]_vars

\* The ledger after the n titles 3..n + 2 were each opened once without
\* an ep parameter: at n distinct times up to 0, the title n + 2 last, or
\* (tied) all within the one clock reading 0, the title n + 2 first (the
\* sort is stable, so tied entries stay in the order they were pushed).
PrefilledHistory(n, tied) ==
    [i \in 1..n |-> Entry(n + 3 - i, Num(1), 0, IF tied THEN 0 ELSE 1 - i)]

\* NumTitles titles, the first with a plain video URL, the others without
\* a video; those of the prefilled ledger have been viewed once.
LedgerCatalog(n) ==
    [i \in 1..NumTitles |->
        Title(i, IF 3 <= i /\ i <= n + 2 THEN 1 ELSE 0, "Action", Undef,
              IF i = 1 THEN RefUrl ELSE RefAbsent, <<>>)]

\* The ledger empty, one short of full, and full.
InitLedger ==
    /\ InitPage
    /\ \E n \in {0, HistoryLimit - 1, HistoryLimit}, tied \in BOOLEAN :
          /\ animeData = LedgerCatalog(n)
          /\ watchHistory = PrefilledHistory(n, tied)
    /\ historyForm = "array"
    /\ now = 0

SpecLedger == InitLedger /\ [][Next]_vars

\* The episode fields of the episode catalogs: numbers and a numeric
\* string, 10 among them so that numeric and text order differ.
EpisodeFields == {Num(2), Num(10), Str(<<"1">>)}

\* The sequences over S of length 1..n.
RECURSIVE SeqsUpTo(_, _)
SeqsUpTo(S, n) ==
    IF n = 0 THEN {}
    ELSE LET shorter == SeqsUpTo(S, n - 1)
         IN  {<<x>> : x \in S} \cup shorter \cup
             {Append(q, x) : q \in {r \in shorter : Len(r) = n - 1}, x \in S}

\* The totalEpisodes of a title without episode records.
TotalEpisodesFields == {Undef, Num(0), Num(3), Str(<<"2">>), Str(<<"x">>), Str(<<>>)}

\* One title: with episode records that each carry a video of their own,
\* or with none and a totalEpisodes count.
InitEpisodes ==
    /\ InitPage
    /\ \/ \E fields \in SeqsUpTo(EpisodeFields, MaxEpisodes) :
             animeData = <<Title(1, 0, "Action", Undef, RefAbsent,
                                 [i \in 1..Len(fields) |-> Episode(fields[i], RefUrl2)])>>
       \/ \E total \in TotalEpisodesFields :
             animeData = <<Title(1, 0, "Action", total, RefUrl, <<>>)>>
    /\ watchHistory = <<>>
    /\ historyForm = "array"
    /\ now = 0

SpecEpisodes == InitEpisodes /\ [][Next]_vars

\* The genres of the related-titles catalogs.
RelatedGenres == {"Action", "Comedy"}

\* The most titles such a catalog holds: the opened title, as many others
\* as loadRelatedAnime shows, and one more.
RelatedCatalogSize == RelatedLimit + 2

\* A catalog with the given genres in stored order: title 1, with a plain
\* video URL, is stored at position k, and the ids of the others descend
\* along the catalog (so stored order is not id order).
RelatedCatalog(genres, k) ==
    [i \in 1..Len(genres) |->
        IF i = k
        THEN Title(1, 0, genres[i], Undef, RefUrl, <<>>)
        ELSE Title(NumTitles - i, 0, genres[i], Undef, RefAbsent, <<>>)]

\* Every catalog of up to RelatedCatalogSize titles over the two genres,
\* title 1 an Action title stored second (among the first ones shown) or
\* last.
InitRelated ==
    /\ InitPage
    /\ \E genres \in SeqsUpTo(RelatedGenres, RelatedCatalogSize) :
          \E k \in {2, Len(genres)} :
             /\ k <= Len(genres)
             /\ genres[k] = "Action"
             /\ animeData = RelatedCatalog(genres, k)
    /\ watchHistory = <<>>
    /\ historyForm = "array"
    /\ now = 0

SpecRelated == InitRelated /\ [][Next]_vars

\* What the watchHistory item of localStorage holds: a JSON array of
\* entries (or nothing), a text JSON.parse rejects, or a JSON value that
\* is not an array (an object, null, a number, a string).
HistoryForms == {"array", "unparseable", "nonarray"}

\* The ledger catalog with the stored history in each form (what the
\* item holds in the malformed forms is never read: the handler throws).
InitCorrupt ==
    /\ InitPage
    /\ animeData = LedgerCatalog(0)
    /\ watchHistory = <<>>
    /\ historyForm \in HistoryForms
    /\ now = 0

SpecCorrupt == InitCorrupt /\ [][Next]_vars

\* ------------------------------------------------- the upload server runs

\* The type parameters of the route tried: image, video and file.
RouteTypes == {<<"i", "m", "a", "g", "e">>, <<"v", "i", "d", "e", "o">>,
               <<"f", "i", "l", "e">>}

\* The mimetypes tried: image/png, video/mp4 and text/x.
MimeTypes == {<<"i", "m", "a", "g", "e", "/", "p", "n", "g">>, VideoMp4,
              <<"t", "e", "x", "t", "/", "x">>}

\* The names tried: 'a.png', 'Ep 3.mp4' and 'S1E2.mkv'.
OriginalNames == {<<"a", ".", "p", "n", "g">>,
                  <<"E", "p", " ", "3", ".", "m", "p", "4">>,
                  <<"S", "1", "E", "2", ".", "m", "k", "v">>}

\* The sizes tried: a kilobyte, and a byte over the limit.
FileSizes == {1024, FileSizeLimit + 1}

\* The file field of a request: absent, or a file.
NoUpload == [sent |-> FALSE, originalname |-> <<>>, mimetype |-> <<>>, size |-> 0]
UploadedFile(originalname, mimetype, size) ==
    [sent |-> TRUE, originalname |-> originalname, mimetype |-> mimetype, size |-> size]
UploadedFiles ==
    {NoUpload} \cup {UploadedFile(n, m, z) :
                        n \in OriginalNames, m \in MimeTypes, z \in FileSizes}

\* What Date.now() and Math.round(Math.random() * 1E9) may return.
UploadTimes == 1..MaxUploads
Randoms == {0, 7}

\* POST /api/upload/:type with the multipart field file. multer applies
\* fileFilter, then stores the file (destination, filename) and enforces
\* limits.fileSize, removing the file when it is exceeded; the route's
\* callback answers 500 on an error, 400 without a file, and else with the
\* fileUrl built from the type parameter.
Upload(fileType, file, time, random) ==
    /\ uploads < MaxUploads
    /\ uploads' = uploads + 1
    /\ IF ~file.sent
       THEN /\ reqFile' = NoFile
            /\ response' = Failure(400)
            /\ UNCHANGED disk
       ELSE IF ~FileFilter(file.mimetype) \/ file.size > FileSizeLimit
       THEN /\ reqFile' = NoFile
            /\ response' = Failure(500)
            /\ UNCHANGED disk
       ELSE LET destination == Destination(file.mimetype)
                filename == FileName(file.originalname, time, random)
            IN  /\ disk' = disk \cup {[root |-> server.root, dir |-> destination,
                                       filename |-> filename]}
                /\ reqFile' = StoredFile(destination, filename,
                                         file.originalname, file.size)
                /\ response' =
                      Response(200, TRUE, FileUrl(server.prefix, fileType, filename),
                               file.originalname, file.size,
                               IF fileType = <<"v", "i", "d", "e", "o">>
                               THEN EpisodeNumber(file.originalname) ELSE Null)
    /\ UNCHANGED <<animeData, watchHistory, historyForm, now, sessions, status,
                   href, videoUrl, videoPlayer, episodesList, relatedAnime,
                   lastCall, server>>

NextServer ==
    \E fileType \in RouteTypes, file \in UploadedFiles,
       time \in UploadTimes, random \in Randoms :
          Upload(fileType, file, time, random)

\* Either variant of the server, started on empty upload directories; no
\* page is open.
InitServer ==
    /\ PageIdle
    /\ animeData = <<>>
    /\ watchHistory = <<>>
    /\ historyForm = "array"
    /\ now = 0
    /\ server \in ServerVariants
    /\ ServerIdle

SpecServer == InitServer /\ [][NextServer]_vars

\* ============================================================ the claims

\* ------------------------------------------------------------------- C1
\* C1: whatever addToWatchHistory calls have been made, the stored ledger
\* holds no two entries with the same title id and at most 20 entries.
C1_LedgerInvariant ==
    /\ \A i, j \in 1..Len(watchHistory) :
          watchHistory[i].animeId = watchHistory[j].animeId => i = j
    /\ Len(watchHistory) <= HistoryLimit

\* A call for a new title has just been stored on a full ledger: title 1
\* is in, the oldest title (3) is out, and the ledger is full again.
C1_Witness ==
    /\ lastCall.called /\ lastCall.animeId = 1
    /\ Len(watchHistory) = HistoryLimit
    /\ \E i \in 1..Len(watchHistory) : watchHistory[i].animeId = 1
    /\ \A i \in 1..Len(watchHistory) : watchHistory[i].animeId # 3

\* ------------------------------------------------------------------- C2
\* C2: a call addToWatchHistory(T, e2, p2) made while the ledger holds an
\* entry for T (an earlier call's, not evicted since) leaves exactly one
\* entry for T, and that entry carries e2 (as JSON stores it) and p2.
C2_ReplaceStep ==
    (lastCall'.called /\ historyForm = "array"
        /\ ExistingIndex(watchHistory, lastCall'.animeId) # 0)
    => /\ Cardinality({i \in 1..Len(watchHistory') :
                          watchHistory'[i].animeId = lastCall'.animeId}) = 1
       /\ \A i \in 1..Len(watchHistory') :
             watchHistory'[i].animeId = lastCall'.animeId
             => /\ watchHistory'[i].episode = JsonRoundTrip(lastCall'.episode)
                /\ watchHistory'[i].progress = lastCall'.progress

C2_ReplaceNotMerge == [][C2_ReplaceStep]_vars

\* Title 1 was opened on an empty ledger and a progress tick has since
\* replaced its entry: one entry, with the tick's episode and progress.
C2_Witness ==
    /\ lastCall.called /\ lastCall.progress > 0
    /\ Len(watchHistory) = 1
    /\ watchHistory[1].animeId = lastCall.animeId
    /\ watchHistory[1].progress = lastCall.progress
    /\ watchHistory[1].episode = lastCall.episode
    /\ watchHistory[1].episode.t = "str"

\* ------------------------------------------------------------------- C3
\* C3: a call for a title not in a ledger of 20 entries removes exactly
\* one of the 21 candidates (the 20 entries and the new one), and the one
\* removed has the least lastWatched of the 21.
C3_Candidates ==
    Append(watchHistory,
           Entry(lastCall'.animeId, JsonRoundTrip(lastCall'.episode),
                 lastCall'.progress, now'))

C3_EvictStep ==
    (lastCall'.called /\ historyForm = "array"
        /\ Len(watchHistory) = HistoryLimit
        /\ ExistingIndex(watchHistory, lastCall'.animeId) = 0)
    => /\ Len(watchHistory') = HistoryLimit
       /\ \E k \in 1..Len(C3_Candidates) :
             /\ \A j \in 1..Len(C3_Candidates) :
                   C3_Candidates[k].lastWatched <= C3_Candidates[j].lastWatched
             /\ {watchHistory'[i] : i \in 1..Len(watchHistory')}
                  = {C3_Candidates[j] : j \in 1..Len(C3_Candidates) \ {k}}

C3_EvictsLeastRecent == [][C3_EvictStep]_vars

\* Title 2 was opened after 20 others at a later time: it heads the
\* ledger and the title watched longest ago (3) is gone.
C3_Witness ==
    /\ lastCall.called /\ lastCall.animeId = 2
    /\ Len(watchHistory) = HistoryLimit
    /\ watchHistory[1].animeId = 2
    /\ watchHistory[1].lastWatched > watchHistory[2].lastWatched
    /\ \A i \in 1..Len(watchHistory) : watchHistory[i].animeId # 3

\* ------------------------------------------------------------------- C4
\* The six shapes of a VideoRef that C4 lists, and the variant each is to
\* resolve to; "other" for a text of none of the six shapes.
C4_Shape(ref) ==
    CASE ~Truthy(ref.text) -> "absent"
      [] Truthy(ref.text) /\ ref.parse.jt = "fail" /\ ~ref.open /\ ~ref.close -> "url"
      [] Truthy(ref.text) /\ ref.parse.jt = "fail" /\ ref.open /\ ref.close -> "iframe-tag"
      [] Truthy(ref.text) /\ ref.parse.jt = "object" /\ ref.parse.type = "embed"
            /\ ref.parse.provider = "iframe" /\ Truthy(ref.parse.iframeSrc) -> "embed-iframe"
      [] Truthy(ref.text) /\ ref.parse.jt = "object" /\ ref.parse.type = "embed"
            /\ ref.parse.provider = "bigcommand" -> "embed-bigcommand"
      [] Truthy(ref.text) /\ ref.parse.jt = "object" /\ ref.parse.type = "file"
            /\ ref.parse.fileInfo.present -> "file"
      [] OTHER -> "other"

C4_Variant(shape) ==
    CASE shape = "absent" -> "NoVideo"
      [] shape = "url" -> "DirectVideo"
      [] shape = "iframe-tag" -> "RawEmbedMarkup"
      [] shape = "embed-iframe" -> "IframeEmbed"
      [] shape = "embed-bigcommand" -> "ProviderEmbed"
      [] shape = "file" -> "LargeFilePlaceholder"
      [] OTHER -> "none"

\* C4: on every load, a VideoRef of one of the six listed shapes is
\* rendered as one of the six variants, the one its shape determines (so
\* the same VideoRef gives the same variant on every load).
C4_ResolveTotal ==
    (status = "watching" /\ C4_Shape(videoUrl) # "other")
    => videoPlayer.kind = C4_Variant(C4_Shape(videoUrl))

\* A JSON embed/iframe descriptor has been rendered as an iframe.
C4_Witness ==
    /\ status = "watching"
    /\ videoUrl = RefEmbedIframe
    /\ videoPlayer.kind = "IframeEmbed"

\* ------------------------------------------------------------------- C5
\* The request is an episode number: the ep parameter reads as a number.
C5_Requested == ToNumber(GetEpisodeNumber(href.ep))

\* The episode records of the loaded title.
C5_Episodes == animeData[FindAnime(animeData, href.id)].episodes

\* The records for the requested episode number that carry a videoUrl.
C5_WithVideo ==
    {i \in 1..Len(C5_Episodes) :
        /\ ParseInt(C5_Episodes[i].episode) = C5_Requested
        /\ Truthy(C5_Episodes[i].videoUrl.text)}

\* C5 as stated: when some record for the requested episode number has a
\* present, non-empty videoUrl, the resolved VideoRef is such a record's
\* videoUrl (and so not the title's).
C5_EpisodeLevelWins ==
    (status = "watching" /\ IsNum(C5_Requested) /\ C5_WithVideo # {})
    => \E i \in C5_WithVideo : videoUrl = C5_Episodes[i].videoUrl

\* ------------------------------------------------------------------- C6
\* C6: a present VideoRef that JSON.parse rejects is rendered as
\* RawEmbedMarkup of the text itself exactly when the text contains both
\* '<iframe' and '</iframe>', and else as DirectVideo of the text itself.
C6_RawString ==
    (status = "watching" /\ Truthy(videoUrl.text) /\ videoUrl.parse.jt = "fail")
    => /\ (videoUrl.open /\ videoUrl.close)
            <=> (videoPlayer.kind = "RawEmbedMarkup" /\ videoPlayer.markup = videoUrl.text)
       /\ ~(videoUrl.open /\ videoUrl.close)
            <=> (videoPlayer.kind = "DirectVideo" /\ videoPlayer.src = <<videoUrl.text>>)

\* A text with an opening iframe tag and no closing one plays as a video.
C6_Witness ==
    /\ status = "watching"
    /\ videoUrl = RefOpenTagOnly
    /\ videoPlayer.kind = "DirectVideo"
    /\ videoPlayer.src = <<RefOpenTagOnly.text>>

\* ------------------------------------------------------------------- C7
\* C7: a parsed descriptor of type "embed" is rendered by its provider:
\* "iframe" with an iframeSrc (present and non-empty) as IframeEmbed of
\* it; "iframe" without one as RawEmbedMarkup of the embed code;
\* "bigcommand" as ProviderEmbed with src the base URL followed by dataId;
\* any other provider as RawEmbedMarkup of the embed code.
C7_EmbedByProvider ==
    (status = "watching" /\ Truthy(videoUrl.text)
        /\ videoUrl.parse.jt = "object" /\ videoUrl.parse.type = "embed")
    => CASE videoUrl.parse.provider = "iframe" /\ Truthy(videoUrl.parse.iframeSrc) ->
                /\ videoPlayer.kind = "IframeEmbed"
                /\ videoPlayer.src = <<videoUrl.parse.iframeSrc>>
         [] videoUrl.parse.provider = "iframe" /\ ~Truthy(videoUrl.parse.iframeSrc) ->
                /\ videoPlayer.kind = "RawEmbedMarkup"
                /\ videoPlayer.markup = videoUrl.parse.embedCode
         [] videoUrl.parse.provider = "bigcommand" ->
                /\ videoPlayer.kind = "ProviderEmbed"
                /\ videoPlayer.src = <<"https://adilo.bigcommand.com/watch/", videoUrl.parse.dataId>>
         [] OTHER ->
                /\ videoPlayer.kind = "RawEmbedMarkup"
                /\ videoPlayer.markup = videoUrl.parse.embedCode

\* The bigcommand descriptor of the spec's example has been rendered.
C7_Witness ==
    /\ status = "watching"
    /\ videoUrl = RefBigCommand
    /\ videoPlayer.kind = "ProviderEmbed"
    /\ videoPlayer.src = <<"https://adilo.bigcommand.com/watch/", "xyz123">>

\* ------------------------------------------------------------------- C8
\* C8 as stated: every parsed descriptor of type "file" is rendered as
\* LargeFilePlaceholder, with or without a fileInfo.
C8_FileAlwaysPlaceholder ==
    (status = "watching" /\ Truthy(videoUrl.text)
        /\ videoUrl.parse.jt = "object" /\ videoUrl.parse.type = "file")
    => videoPlayer.kind = "LargeFilePlaceholder"

\* ------------------------------------------------------------------- C9
\* C9 as stated: a VideoRef that JSON.parse accepts and whose value has a
\* type other than "embed" and "file", or none (null and numbers too),
\* is rendered as NoVideo.
C9_UnresolvedIsNoVideo ==
    (status = "watching" /\ Truthy(videoUrl.text)
        /\ videoUrl.parse.jt # "fail"
        /\ videoUrl.parse.type \notin {"embed", "file"})
    => videoPlayer = NoVideo

\* ------------------------------------------------------------------ C10
\* The episode numbers of the loaded title's records, in stored order.
C10_Numbers ==
    LET episodes == animeData[FindAnime(animeData, href.id)].episodes
    IN  [i \in 1..Len(episodes) |-> ParseInt(episodes[i].episode)]

\* C10: for a title with episode records (their episode fields numeric),
\* the list holds one button per record, the buttons' numbers are the
\* records' numbers, each as often as it occurs, in ascending order, and
\* in strictly increasing order when the records' numbers are distinct.
C10_EpisodesSorted ==
    (status = "watching" /\ Len(C10_Numbers) > 0)
    => /\ Len(episodesList) = Len(C10_Numbers)
       /\ \A i, j \in 1..Len(episodesList) :
             i < j => episodesList[i].epNum.n <= episodesList[j].epNum.n
       /\ \A k \in 1..Len(C10_Numbers) :
             Cardinality({i \in 1..Len(episodesList) : episodesList[i].epNum = C10_Numbers[k]})
               = Cardinality({i \in 1..Len(C10_Numbers) : C10_Numbers[i] = C10_Numbers[k]})
       /\ (\A i, j \in 1..Len(C10_Numbers) : C10_Numbers[i] = C10_Numbers[j] => i = j)
             => \A i, j \in 1..Len(episodesList) :
                   i < j => episodesList[i].epNum.n < episodesList[j].epNum.n

\* Records numbered 10, 2 and '1', in that order, are listed as 1, 2, 10.
C10_Witness ==
    /\ status = "watching"
    /\ C10_Numbers = <<Num(10), Num(2), Num(1)>>
    /\ [i \in 1..Len(episodesList) |-> episodesList[i].epNum] = <<Num(1), Num(2), Num(10)>>

\* ------------------------------------------------------------------ C11
\* The totalEpisodes field of the loaded title.
C11_Field == animeData[FindAnime(animeData, href.id)].totalEpisodes

\* The count C11 takes: the field's number when it is numeric (a number,
\* or a string of digits), 1 when it is absent or non-numeric.
C11_Total ==
    CASE C11_Field.t = "num" -> C11_Field.n
      [] C11_Field.t = "str" /\ C11_Field.s # <<>> /\ IsNum(ToNumber(C11_Field.s)) ->
            ToNumber(C11_Field.s).n
      [] OTHER -> 1

\* C11 as stated: for a title without episode records (its totalEpisodes
\* absent, a positive number or a string), the list is 1..totalEpisodes,
\* with 1 for an absent or non-numeric totalEpisodes, and so never empty
\* then.
C11_DefaultsToOne ==
    (status = "watching" /\ Len(C5_Episodes) = 0 /\ C11_Field # Num(0))
    => [i \in 1..Len(episodesList) |-> episodesList[i].epNum]
          = [i \in 1..C11_Total |-> Num(i)]

\* ------------------------------------------------------------------ C12
\* The positions in the catalog of the titles other than the opened one.
C12_Others == {i \in 1..Len(animeData) : animeData[i].id # href.id}

\* The genre of the opened title: the genre loadRelatedAnime is given.
C12_Genre == animeData[FindAnime(animeData, href.id)].genre

\* The positions of the other titles of that genre.
C12_Matching == {i \in C12_Others : animeData[i].genre = C12_Genre}

\* C12: when some other title has the genre, the related titles are the
\* first up to 4 other titles of the genre, in stored order: the k-th one
\* shown is the k-th such title of the catalog (so neither the opened
\* title nor a title of another genre is shown).
C12_RelatedByGenre ==
    (status = "watching" /\ C12_Matching # {})
    => /\ Len(relatedAnime) =
            (IF Cardinality(C12_Matching) < 4 THEN Cardinality(C12_Matching) ELSE 4)
       /\ \A k \in 1..Len(relatedAnime) :
             \E p \in C12_Matching :
                /\ Cardinality({q \in C12_Matching : q <= p}) = k
                /\ relatedAnime[k] = animeData[p].id

\* Of five titles the third is Comedy and the others Action; the last
\* is open: the three other Action titles are shown, in stored order,
\* and no fourth title.
C12_Witness ==
    /\ status = "watching"
    /\ [i \in 1..Len(animeData) |-> animeData[i].genre]
          = <<"Action", "Action", "Comedy", "Action", "Action">>
    /\ animeData[5].id = href.id
    /\ relatedAnime = <<animeData[1].id, animeData[2].id, animeData[4].id>>

\* ------------------------------------------------------------------ C13
\* C13: when no other title has the genre, the related titles are the
\* first min(4, n) of the n other titles, in stored order (so the opened
\* title is never shown, and nothing is shown only when n = 0).
C13_RelatedFallback ==
    (status = "watching" /\ C12_Matching = {})
    => /\ Len(relatedAnime) =
            (IF Cardinality(C12_Others) < 4 THEN Cardinality(C12_Others) ELSE 4)
       /\ \A k \in 1..Len(relatedAnime) :
             \E p \in C12_Others :
                /\ Cardinality({q \in C12_Others : q <= p}) = k
                /\ relatedAnime[k] = animeData[p].id

\* The only Action title of six, stored second, is open: the first four
\* of the five Comedy titles are shown, in stored order.
C13_Witness ==
    /\ status = "watching"
    /\ [i \in 1..Len(animeData) |-> animeData[i].genre]
          = <<"Comedy", "Action", "Comedy", "Comedy", "Comedy", "Comedy">>
    /\ animeData[2].id = href.id
    /\ relatedAnime = <<animeData[1].id, animeData[3].id, animeData[4].id, animeData[5].id>>

\* ------------------------------------------------------------------ C14
\* C14 as stated: an addToWatchHistory call that finds the stored history
\* malformed completes (the load that made it goes on to show the page),
\* and leaves a well-formed ledger holding just the call's entry.
C14_RecoverStep ==
    (lastCall'.called /\ historyForm # "array")
    => /\ status' # "failed"
       /\ historyForm' = "array"
       /\ Len(watchHistory') = 1
       /\ watchHistory'[1].animeId = lastCall'.animeId
       /\ watchHistory'[1].episode = JsonRoundTrip(lastCall'.episode)
       /\ watchHistory'[1].progress = lastCall'.progress

C14_CorruptLedgerRecovered == [][C14_RecoverStep]_vars

\* ------------------------------------------------------------------ C15
\* C15: a load either proceeds, with an id parameter that is present and
\* is the id of a title of the catalog, or it redirects, and then it
\* leaves the catalog (every title's views) and the stored watch history
\* as they were and makes no addToWatchHistory call.
C15_LoadStep ==
    (sessions' = sessions + 1)
    => IF href'.id # 0 /\ \E i \in 1..Len(animeData) : animeData[i].id = href'.id
       THEN status' # "redirected"
       ELSE /\ status' = "redirected"
            /\ ~lastCall'.called
            /\ UNCHANGED <<animeData, watchHistory, historyForm>>

C15_MissingTitleWritesNothing == [][C15_LoadStep]_vars

\* Title 1 was opened and then a load was redirected: the view count and
\* the ledger are as the first load left them.
C15_Witness ==
    /\ status = "redirected"
    /\ sessions = 2
    /\ animeData[1].views = 1
    /\ Len(watchHistory) = 1
    /\ watchHistory[1].animeId = 1

\* ------------------------------------------------------------------ C16
\* C16: no step lowers a title's views; a step that raises a title's
\* views is a load of that title and raises them by one; so a load
\* leaves the views of every other title as they were.
C16_ViewsStep ==
    /\ Len(animeData') = Len(animeData)
    /\ \A i \in 1..Len(animeData) :
          /\ animeData'[i].id = animeData[i].id
          /\ animeData'[i].views >= animeData[i].views
          /\ animeData'[i].views <= animeData[i].views + 1
          /\ animeData'[i].views # animeData[i].views
             => (sessions' = sessions + 1 /\ href'.id = animeData[i].id)

C16_ViewsMonotone == [][C16_ViewsStep]_vars

\* Title 1 and then title 2 were opened: each has been viewed once, and
\* no other title has.
C16_Witness ==
    /\ sessions = 2
    /\ href.id = 2
    /\ \A i \in 1..Len(animeData) :
          animeData[i].views = (IF animeData[i].id \in {1, 2} THEN 1 ELSE 0)

\* ------------------------------------------------------------------ C17
\* C17 as stated: the episode of every entry of the stored ledger is an
\* integer (a JSON number), whichever call wrote the entry.
C17_EpisodeIsInteger ==
    \A i \in 1..Len(watchHistory) : watchHistory[i].episode.t = "num"

\* ------------------------------------------------------------------ C18
\* C18, over the steps of a session. A load of an existing title makes
\* one addToWatchHistory call, with progress 0, for that title; a call
\* with progress 0 is made by no other step; a tick comes only after
\* such a load (the page is playing); and a tick makes a call exactly
\* when it reports progress, that is when the elapsed part currentTime /
\* duration is positive, for a duration greater than 0 (at currentTime 0,
\* or with a duration that is NaN or Infinity, there is none), and then
\* with that positive progress, for the title of the session.
C18_SessionStep ==
    /\ \A id \in IdParams \cap {href'.id}, ep \in EpParams \cap {href'.ep}, t \in {now'} :
          (id # 0 /\ FindAnime(animeData, id) # 0 /\ LoadAnimeDetails(id, ep, t))
          => /\ lastCall'.called
             /\ lastCall'.animeId = id
             /\ lastCall'.progress = 0
    /\ (lastCall'.called /\ lastCall'.progress = 0) => sessions' = sessions + 1
    /\ \A currentTime \in 0..MaxCurrentTime, duration \in Durations, t \in {now'} :
          (sessions' = sessions /\ TimeUpdate(currentTime, duration, t))
          => /\ status = "watching" /\ sessions > 0
             /\ lastCall'.called
                  <=> (duration.k = "fin" /\ duration.v > 0 /\ currentTime > 0)
             /\ lastCall'.called
                  => /\ lastCall'.progress > 0
                     /\ lastCall'.animeId = href.id

C18_CallAtStartAndOnTicks == [][C18_SessionStep]_vars

\* In the first session, begun with a progress-0 entry, a tick a quarter
\* into episode 2 has made the call.
C18_Witness ==
    /\ sessions = 1
    /\ status = "watching"
    /\ videoPlayer.tracking
    /\ href.ep = <<"2">>
    /\ lastCall = Call(1, Str(<<"2">>), 25)

\* ------------------------------------------------------------------ C19
\* C19 as stated: right after a call addToWatchHistory(T, e, p) on a
\* well-formed ledger, the first entry of the stored ledger is T's and
\* carries e (as JSON stores it) and p, whatever the ledger held and
\* whatever time the clock gave, a time equal to stored ones included.
C19_FirstStep ==
    (lastCall'.called /\ historyForm = "array")
    => /\ Len(watchHistory') >= 1
       /\ watchHistory'[1].animeId = lastCall'.animeId
       /\ watchHistory'[1].episode = JsonRoundTrip(lastCall'.episode)
       /\ watchHistory'[1].progress = lastCall'.progress

C19_LatestEntryFirst == [][C19_FirstStep]_vars

\* ------------------------------------------------------------------ C20
\* The record the resolver's lookup finds for the ep parameter, 0 if none.
C20_Found == FindEpisode(C5_Episodes, GetEpisodeNumber(href.ep))

\* C20 as stated: for a title with episode records, whenever a button of
\* the list is marked as current, the resolver's lookup finds a record,
\* and that record has the button's number.
C20_HighlightedIsResolved ==
    (status = "watching" /\ Len(C5_Episodes) > 0)
    => \A i \in 1..Len(episodesList) :
          episodesList[i].current
          => /\ C20_Found # 0
             /\ ParseInt(C5_Episodes[C20_Found].episode) = episodesList[i].epNum

\* ------------------------------------------------------------------ C21
\* C21 as stated: in every successful upload response, the directory that
\* the fileUrl names is the directory in which the storage placed the
\* file, and the file is there under the name the fileUrl gives.
C21_UrlNamesStoredFile ==
    response.success
    => /\ reqFile.present
       /\ response.fileUrl.prefix = server.prefix
       /\ response.fileUrl.dir = reqFile.destination
       /\ [root |-> server.root, dir |-> response.fileUrl.dir,
           filename |-> response.fileUrl.filename] \in disk

====
